---- MODULE Spec2Model ----
(***************************************************************************)
(* Stock pair trade calculator (app.py): the trading-day resolver of       *)
(* get_stock_changes, the return / CAGR / volatility computations, and the *)
(* form submission of main() that aggregates the pairs and writes the      *)
(* report.                                                                 *)
(*                                                                         *)
(* Dates are day numbers; day 0 is a Monday, so Weekday(d) = d % 7 is      *)
(* datetime.weekday().  The price provider (yfinance) and the form are the *)
(* environment: their values are drawn from bounded sets.                  *)
(***************************************************************************)
EXTENDS Integers, Sequences, FiniteSets, TLC

VARIABLES
    \* ---- the environment ----
    market,       \* the provider's price table of each ticker
    \* ---- main(), one form submission (Spec) ----
    pc,           \* "form" | "pairs" | "portfolio" | "table" | "save" | "show"
                  \*   | "done" | "error" | "hung"
    pairs,        \* the (long, short) tickers entered in the form
    adjusted_start_date,
    results,      \* the rows appended so far (line 186)
    total_returns,
    total_volatility,
    results_df,   \* the table with the 'Total Portfolio' row (lines 205-220)
    file,         \* stock_returns.html: the table written, <<>> when not written
    screen,       \* the table shown by st.write, <<>> when none is shown
    error,        \* the exception that ended the submission
    \* ---- history of the submission's locals ----
    differences,  \* the `difference` dictionary of each finished iteration
    calls,        \* one record per get_stock_changes call
    reads,        \* (function, ticker, price column) of every price read
    \* ---- get_closest_date, one call, step by step (SpecResolver) ----
    r_index,      \* data.index of the enclosing get_stock_changes call
    r_target,     \* the argument `date` as passed
    r_date,       \* the local `date` (the cursor the loop moves)
    r_pc,         \* "entry" | "loop" | "returned" | "raised"
    r_result      \* the outcome: the returned date, or the exception raised

rvars == <<r_index, r_target, r_date, r_pc, r_result>>

mvars == <<market, pc, pairs, adjusted_start_date, results, total_returns,
           total_volatility, results_df, file, screen, error, differences,
           calls, reads>>

vars == <<market, pc, pairs, adjusted_start_date, results, total_returns,
          total_volatility, results_df, file, screen, error, differences,
          calls, reads, r_index, r_target, r_date, r_pc, r_result>>

(***************************************************************************)
(* Bounds of the model.                                                    *)
(***************************************************************************)
\* Last calendar day of the resolver's universe (SpecResolver).
MaxDay == 8

\* Largest price the provider quotes.
MaxPrice == 1

\* Largest number of pairs entered in the form.
MaxPairs == 2

\* datetime.now(), as a day number (a Wednesday).
Today == 100

(***************************************************************************)
(* Program constants.                                                      *)
(***************************************************************************)
\* lines 55-57: timedelta(days=30), timedelta(days=90), timedelta(days=365)
OneMonthDays == 30

ThreeMonthsDays == 90

OneYearDays == 365

(***************************************************************************)
(* Calendar.                                                               *)
(***************************************************************************)
\* The earliest day pd.Timestamp can hold; `date -= timedelta(days=1)` below
\* it raises instead of producing a date.
TimestampMin == 0

Weekday(d) == d % 7

\* datetime.weekday() > 4: Saturday or Sunday.
IsWeekend(d) == Weekday(d) > 4

NoDate == 0 - 1

RECURSIVE SetMax(_)
SetMax(S) ==
    LET x == CHOOSE y \in S : TRUE
    IN  IF S = {x} THEN x
        ELSE LET m == SetMax(S \ {x}) IN IF x > m THEN x ELSE m

RECURSIVE SetMin(_)
SetMin(S) ==
    LET x == CHOOSE y \in S : TRUE
    IN  IF S = {x} THEN x
        ELSE LET m == SetMin(S \ {x}) IN IF x < m THEN x ELSE m

(***************************************************************************)
(* get_closest_date (lines 29-35).                                         *)
(***************************************************************************)
\* data.index[-1]: the last date of the series (IndexError when empty).
LastDate(index) == SetMax(index)

\* line 31: `if date > data.index[-1]`
BeyondLast(index, date) == date > LastDate(index)

\* (the date itself, not clamped: what line 32 would return without the clamp)
ClampedDate_Unclamped(index, date) == date

\* line 32: `return data.index[-1]`
ClampedDate(index, date) == LastDate(index)

\* line 33: `while date not in data.index`
LoopGuard(index, date) == date \notin index

\* line 34: `date -= timedelta(days=1)`; a Timestamp below TimestampMin does
\* not exist, the subtraction raises.
StepOverflows(date) == date - 1 < TimestampMin

Stepped(date) == date - 1

\* The outcome of a call: the date returned (exc = ""), or the exception raised.
Returned(d) == [exc |-> "", date |-> d]

Raised(e) == [exc |-> e, date |-> NoDate]

RECURSIVE ClosestLoop(_, _)
ClosestLoop(index, date) ==
    IF LoopGuard(index, date)
    THEN IF StepOverflows(date) THEN Raised("OverflowError")
         ELSE ClosestLoop(index, Stepped(date))
    ELSE Returned(date)

get_closest_date(index, date) ==
    IF index = {} THEN Raised("IndexError")
    ELSE IF BeyondLast(index, date) THEN Returned(ClampedDate(index, date))
    ELSE ClosestLoop(index, date)

(***************************************************************************)
(* Numbers.  A finite float is an exact fraction n/d in lowest terms       *)
(* (d > 0); "nan" and the two infinities are the IEEE values numpy         *)
(* produces; "sqrt" is the square root of the fraction n/d, kept symbolic. *)
(***************************************************************************)
Abs(x) == IF x < 0 THEN -x ELSE x

RECURSIVE Gcd(_, _)
Gcd(a, b) == IF b = 0 THEN a ELSE Gcd(b, a % b)

Num(n, d) ==
    LET s == IF d < 0 THEN -1 ELSE 1
        g == Gcd(Abs(n), Abs(d))
    IN  [k |-> "num", n |-> (s * n) \div g, d |-> (s * d) \div g]

NaN == [k |-> "nan", n |-> 0, d |-> 0]

Inf(sign) == [k |-> "inf", n |-> sign, d |-> 0]

Zero == Num(0, 1)

Sign(x) == IF x > 0 THEN 1 ELSE IF x < 0 THEN -1 ELSE 0

IsFinite(v) == v.k = "num"

VNeg(v) ==
    CASE v.k = "num" -> Num(-v.n, v.d)
      [] v.k = "inf" -> Inf(-v.n)
      [] OTHER -> v

\* float addition: nan is contagious, inf + (-inf) is nan.
VAdd(a, b) ==
    CASE a.k = "nan" \/ b.k = "nan" -> NaN
      [] a.k = "inf" /\ b.k = "inf" -> IF a.n = b.n THEN a ELSE NaN
      [] a.k = "inf" -> a
      [] b.k = "inf" -> b
      [] OTHER -> Num(a.n * b.d + b.n * a.d, a.d * b.d)

VSub(a, b) == VAdd(a, VNeg(b))

VMul(a, b) ==
    CASE a.k = "nan" \/ b.k = "nan" -> NaN
      [] a.k = "inf" /\ b.k = "inf" -> Inf(a.n * b.n)
      [] a.k = "inf" -> IF b.n = 0 THEN NaN ELSE Inf(a.n * Sign(b.n))
      [] b.k = "inf" -> IF a.n = 0 THEN NaN ELSE Inf(b.n * Sign(a.n))
      [] OTHER -> Num(a.n * b.n, a.d * b.d)

\* numpy float64 division: x/0 is +-inf, 0/0 is nan, no exception.
VDiv(a, b) ==
    CASE a.k = "nan" \/ b.k = "nan" -> NaN
      [] a.k = "inf" /\ b.k = "inf" -> NaN
      [] a.k = "inf" -> Inf(a.n * (IF b.n < 0 THEN -1 ELSE 1))
      [] b.k = "inf" -> Zero
      [] b.n = 0 -> IF a.n = 0 THEN NaN ELSE Inf(Sign(a.n))
      [] OTHER -> Num(a.n * b.d, a.d * b.n)

\* np.sqrt of a non-negative value; exact only for 0.
VSqrt(v) ==
    CASE v.k = "nan" -> NaN
      [] v.k = "inf" -> IF v.n > 0 THEN v ELSE NaN
      [] v.n = 0 -> Zero
      [] v.n < 0 -> NaN
      [] OTHER -> [k |-> "sqrt", n |-> v.n, d |-> v.d]

\* f"{x:.2f}": the value rounded to two decimals (ties to even); nan and inf
\* print as themselves.  The digits of a symbolic square root are not computed.
Format2(v) ==
    IF v.k # "num" THEN v
    ELSE LET q == (100 * v.n) \div v.d
             r == (100 * v.n) % v.d
             c == IF 2 * r < v.d THEN q
                  ELSE IF 2 * r > v.d THEN q + 1
                  ELSE IF q % 2 = 0 THEN q ELSE q + 1
         IN  Num(c, 100)

RECURSIVE SeqSum(_)
SeqSum(xs) == IF xs = <<>> THEN Zero ELSE VAdd(Head(xs), SeqSum(Tail(xs)))

\* Series.std(): sample standard deviation (ddof = 1) of the non-NaN values.
Square(v) == VMul(v, v)

Mean(ys) == VDiv(SeqSum(ys), Num(Len(ys), 1))

Std(xs) ==
    LET Deviations(ys, mean) == [i \in 1..Len(ys) |-> Square(VSub(ys[i], mean))]
        StdOf(ys) ==
            IF Len(ys) < 2 THEN NaN
            ELSE IF \E i \in 1..Len(ys) : ys[i].k = "inf" THEN NaN
            ELSE VSqrt(VDiv(SeqSum(Deviations(ys, Mean(ys))), Num(Len(ys) - 1, 1)))
    IN  StdOf(SelectSeq(xs, LAMBDA v : v.k # "nan"))

\* sqrt(252) * 100 applied to a standard deviation (lines 53, 106, 147):
\* sqrt(x) * sqrt(252) * 100 is kept as sqrt(x * 252 * 100 * 100).
Annualized(v) ==
    IF v.k = "sqrt"
    THEN [k |-> "sqrt", n |-> Num(v.n * 2520000, v.d).n, d |-> Num(v.n * 2520000, v.d).d]
    ELSE v

(***************************************************************************)
(* The price provider (yfinance) and get_stock_data (lines 8-19).          *)
(***************************************************************************)
Tickers == {"AAA", "BBB"}

\* The days on which the provider may hold a row for a ticker (all weekdays).
RowDays == {7, 8, 38}

Prices == 0..MaxPrice

\* A price table: its dates, the close of each date, and whether the table
\* has an 'Adj Close' column.  The tickers pay no dividend inside the window,
\* so where the column exists its values are those of 'Close'.
Tables == UNION {[index : {S}, close : [S -> Prices], adj : BOOLEAN] : S \in SUBSET RowDays}

Columns(data) == IF data.adj THEN {"Close", "Adj Close"} ELSE {"Close"}

\* stock.history(start=, end=): the rows with start <= date < end.
History(table, start, end) ==
    LET S == {d \in table.index : start <= d /\ d < end}
    IN  [index |-> S, close |-> [d \in S |-> table.close[d]], adj |-> table.adj]

\* lines 13-17 change the index type and time zone only, not dates or prices.
get_stock_data(mkt, ticker, start_date, end_date) ==
    History(mkt[ticker], start_date, end_date)

\* lines 27, 92, 118: 'Adj Close' if 'Adj Close' in data.columns else 'Close'
price_column(data) == IF "Adj Close" \in Columns(data) THEN "Adj Close" ELSE "Close"

RECURSIVE SortedDates(_)
SortedDates(S) ==
    IF S = {} THEN <<>> ELSE LET m == SetMin(S) IN <<m>> \o SortedDates(S \ {m})

\* data[price_column].pct_change(): NaN first, then p[i] / p[i-1] - 1.
pct_change(data) ==
    LET Change(ds) ==
            [d \in data.index |->
                IF d = ds[1] THEN NaN
                ELSE VSub(VDiv(Num(data.close[d], 1),
                               Num(data.close[ds[(CHOOSE j \in 1..Len(ds) : ds[j] = d) - 1]], 1)),
                          Num(1, 1))]
    IN  Change(SortedDates(data.index))

(***************************************************************************)
(* get_stock_changes (lines 22-67).                                        *)
(***************************************************************************)
\* line 41: ((end_price - start_price) / start_price) * 100
PercentChange(start_price, end_price) ==
    VMul(VDiv(Num(end_price - start_price, 1), Num(start_price, 1)), Num(100, 1))

\* line 48: the span whose days are divided by 365.25.
cagr_span(start_date, today, start_resolved, end_resolved) == today - start_date

\* The finite values (ratio ** (1 / num_years) - 1) * 100 may take when the
\* power is irrational: a percentage of the sign of ratio - 1.
CagrGrid == {1, 2}

\* line 49, for span days > 0: ((end / start) ** (1 / num_years) - 1) * 100.
\* 1 ** x and 0 ** x are exact; any other finite ratio gives a value the
\* model does not compute, one of CagrGrid with the sign of ratio - 1.
CagrValues(start_price, end_price) ==
    LET ratio == VDiv(Num(end_price, 1), Num(start_price, 1))
    IN  CASE ratio.k = "nan" -> {NaN}
          [] ratio.k = "inf" -> {ratio}
          [] ratio.n = 0 -> {Num(-100, 1)}
          [] ratio.n = ratio.d -> {Zero}
          [] ratio.n > ratio.d -> {Num(g, 1) : g \in CagrGrid}
          [] OTHER -> {Num(-g, 1) : g \in CagrGrid}

\* lines 51-53
calculate_volatility(data) ==
    LET Returns(ds, rs) == [i \in 1..Len(ds) |-> rs[ds[i]]]
    IN  Annualized(Std(Returns(SortedDates(data.index), pct_change(data))))

Periods == {"One Month", "Three Months", "One Year", "CAGR"}

NoMetrics == [p \in Periods \cup {"Volatility"} |-> NaN]

\* What one call leaves behind: the exception it raised ("" when it
\* returned), its locals, and the dictionary it returned.
CallRecord(ticker, start_date, today, data, exc, names, sr, er, sp, span, metrics) ==
    [ticker |-> ticker, start_date |-> start_date, today |-> today,
     rows |-> Cardinality(data.index), column |-> price_column(data),
     exc |-> exc, names |-> names,   \* names: what the exception's message names
     start_resolved |-> sr, end_resolved |-> er, start_price |-> sp,
     span_days |-> span, returned |-> exc = "", metrics |-> metrics]

\* The possible outcomes of get_stock_changes(ticker, start_date).
get_stock_changes(mkt, ticker, start_date, today) ==
    LET Fail(data, exc) ==
            {CallRecord(ticker, start_date, today, data, exc, {},
                        NoDate, NoDate, 0, 0, NoMetrics)}
        Metrics(data, sp, p30, p90, p365, c, vol) ==
            [p \in Periods \cup {"Volatility"} |->
                CASE p = "One Month" -> PercentChange(sp, p30)
                  [] p = "Three Months" -> PercentChange(sp, p90)
                  [] p = "One Year" -> PercentChange(sp, p365)
                  [] p = "CAGR" -> c
                  [] OTHER -> vol]
        Body(data, sr, e30, e90, e365, et, span) ==
            \* line 55 -> 39: the first get_closest_date(start_date)
            IF sr.exc # "" THEN Fail(data, sr.exc)
            ELSE IF e30.exc # "" THEN Fail(data, e30.exc)
            ELSE IF e90.exc # "" THEN Fail(data, e90.exc)
            ELSE IF e365.exc # "" THEN Fail(data, e365.exc)
            ELSE IF et.exc # "" THEN Fail(data, et.exc)
            \* line 49: 1 / num_years with num_years = 0.0
            ELSE IF span = 0 THEN Fail(data, "ZeroDivisionError")
            ELSE {CallRecord(ticker, start_date, today, data, "", {},
                             sr.date, et.date, data.close[sr.date], span,
                             Metrics(data, data.close[sr.date], data.close[e30.date],
                                     data.close[e90.date], data.close[e365.date], c,
                                     calculate_volatility(data)))
                  : c \in CagrValues(data.close[sr.date], data.close[et.date])}
        Resolve(data, sr, et) ==
            Body(data, sr,
                 get_closest_date(data.index, start_date + OneMonthDays),
                 get_closest_date(data.index, start_date + ThreeMonthsDays),
                 get_closest_date(data.index, start_date + OneYearDays),
                 et, cagr_span(start_date, today, sr.date, et.date))
        Fetched(data) ==
            Resolve(data, get_closest_date(data.index, start_date),
                    get_closest_date(data.index, today))
    IN  Fetched(get_stock_data(mkt, ticker, start_date, today))

(***************************************************************************)
(* adjust_date_to_trading_day (lines 70-83).                               *)
(***************************************************************************)
\* lines 74-75: skip Saturday and Sunday.
RECURSIVE SkipWeekend(_)
SkipWeekend(date) == IF IsWeekend(date) THEN SkipWeekend(date + 1) ELSE date

\* lines 77-81: step forward until AAPL has a row on the date.  When AAPL has
\* no row on or after the date the loop never ends: NoDate.
RECURSIVE NextAaplDay(_, _)
NextAaplDay(aapl, date) ==
    IF \A d \in aapl : d < date THEN NoDate
    ELSE IF date \in aapl THEN date
    ELSE NextAaplDay(aapl, date + 1)

adjust_date_to_trading_day(aapl, date) == NextAaplDay(aapl, SkipWeekend(date))

(***************************************************************************)
(* calculate_pair_volatility (lines 86-106) and                            *)
(* calculate_portfolio_volatility (lines 109-148).                         *)
(***************************************************************************)
\* lines 88-103 and 114-129: the pair's spread series, or the KeyError of
\* short_data[price_column] when long_data alone has 'Adj Close'.
PairReturns(mkt, long_ticker, short_ticker, start_date, today) ==
    LET Kept(column, spread) ==
            \* dropna
            [exc |-> "", names |-> {}, column |-> column,
             index |-> {d \in DOMAIN spread : spread[d].k # "nan"},
             val |-> [d \in {x \in DOMAIN spread : spread[x].k # "nan"} |-> spread[d]]]
        Merged(long_data, short_data, column, rl, rs) ==
            IF column \notin Columns(short_data)
            THEN [exc |-> "KeyError", names |-> {"column"}, column |-> column,
                  index |-> {}, val |-> <<>>]
            \* pd.merge on the index: an inner join.
            ELSE Kept(column, [d \in long_data.index \cap short_data.index |->
                                 VSub(rl[d], rs[d])])
        Fetched(long_data, short_data) ==
            Merged(long_data, short_data, price_column(long_data),
                   pct_change(long_data), pct_change(short_data))
    IN  Fetched(get_stock_data(mkt, long_ticker, start_date, today),
                get_stock_data(mkt, short_ticker, start_date, today))

SeriesValues(series, dates) ==
    LET Values(ds) == [i \in 1..Len(ds) |-> series.val[ds[i]]]
    IN  Values(SortedDates(dates))

\* line 106
calculate_pair_volatility(mkt, long_ticker, short_ticker, start_date, today) ==
    LET Volatility(pr) ==
            IF pr.exc # ""
            THEN [exc |-> pr.exc, names |-> pr.names, column |-> pr.column, value |-> NaN]
            ELSE [exc |-> "", names |-> {}, column |-> pr.column,
                  value |-> Annualized(Std(SeriesValues(pr, pr.index)))]
    IN  Volatility(PairReturns(mkt, long_ticker, short_ticker, start_date, today))

\* DataFrame.cov(): the sample covariance of two columns over the rows where
\* both have a value; NaN with fewer than two such rows.
Cov(a, b) ==
    LET Products(xs, ys, mx, my) ==
            [i \in 1..Len(xs) |-> VMul(VSub(xs[i], mx), VSub(ys[i], my))]
        CovOf(xs, ys) ==
            IF Len(xs) < 2 THEN NaN
            ELSE IF \E i \in 1..Len(xs) : xs[i].k = "inf" \/ ys[i].k = "inf" THEN NaN
            ELSE VDiv(SeqSum(Products(xs, ys, Mean(xs), Mean(ys))), Num(Len(xs) - 1, 1))
    IN  CovOf(SeriesValues(a, a.index \cap b.index), SeriesValues(b, a.index \cap b.index))

\* lines 134-147
PortfolioVariance(returns) ==
    LET Terms(n, w) ==
            [k \in 1..(n * n) |->
                VMul(w, VMul(Cov(returns[((k - 1) \div n) + 1],
                                 returns[((k - 1) % n) + 1]), w))]
    IN  SeqSum(Terms(Len(returns), Num(1, Len(returns))))

calculate_portfolio_volatility(mkt, prs, start_date, today) ==
    LET Columns2(returns) ==
            {<<prs[i][1], returns[i].column>> : i \in 1..Len(prs)}
            \cup {<<prs[i][2], returns[i].column>> : i \in 1..Len(prs)}
        FirstFailed(returns, i) ==
            [exc |-> returns[i].exc, names |-> returns[i].names,
             ticker |-> prs[i][2], reads |-> {}, value |-> NaN]
        Volatility(returns) ==
            IF \E i \in 1..Len(prs) : returns[i].exc # ""
            THEN FirstFailed(returns, SetMin({i \in 1..Len(prs) : returns[i].exc # ""}))
            ELSE [exc |-> "", names |-> {}, ticker |-> "", reads |-> Columns2(returns),
                  value |-> Annualized(VSqrt(PortfolioVariance(returns)))]
    IN  Volatility([i \in 1..Len(prs) |->
                      PairReturns(mkt, prs[i][1], prs[i][2], start_date, today)])

(***************************************************************************)
(* main() (lines 151-230): one submission of the form.                     *)
(***************************************************************************)
\* The start dates the form offers: a Saturday, a Monday, and today.
StartDates == {5, 7, Today}

\* AAPL trades on every weekday before today, except on a holiday.
Holidays == {7}

AaplCalendars == {{d \in 0..(Today - 1) : ~IsWeekend(d)} \ h : h \in SUBSET Holidays}

NoError == [type |-> "", where |-> "", ticker |-> "", names |-> {}]

Init ==
    /\ market \in [Tickers -> Tables]
    /\ pc = "form"
    /\ pairs = <<>>
    /\ adjusted_start_date = NoDate
    /\ results = <<>>
    /\ total_returns = [p \in Periods |-> Zero]
    /\ total_volatility = Zero
    /\ results_df = <<>>
    /\ file = <<>>
    /\ screen = <<>>
    /\ error = NoError
    /\ differences = <<>>
    /\ calls = <<>>
    /\ reads = {}
    /\ r_index = {}
    /\ r_target = NoDate
    /\ r_date = NoDate
    /\ r_pc = "idle"
    /\ r_result = Raised("")

\* lines 157-176: the form is submitted and the start date adjusted.
Submit ==
    /\ pc = "form"
    /\ \E n \in 1..MaxPairs, start \in StartDates, aapl \in AaplCalendars :
         /\ adjusted_start_date' = adjust_date_to_trading_day(aapl, start)
         /\ adjusted_start_date' # NoDate
         /\ pairs' \in [1..n -> Tickers \X Tickers]
    /\ pc' = "pairs"
    /\ UNCHANGED <<market, results, total_returns, total_volatility, results_df,
                   file, screen, error, differences, calls, reads>>
    /\ UNCHANGED rvars

\* line 172 when AAPL has no row on or after the start date: the loop of
\* adjust_date_to_trading_day (lines 79-81) does not end.
SubmitHangs ==
    /\ pc = "form"
    /\ \E n \in 1..MaxPairs, start \in StartDates, aapl \in AaplCalendars :
         /\ adjust_date_to_trading_day(aapl, start) = NoDate
         /\ pairs' \in [1..n -> Tickers \X Tickers]
    /\ pc' = "hung"
    /\ UNCHANGED <<market, adjusted_start_date, results, total_returns,
                   total_volatility, results_df, file, screen, error,
                   differences, calls, reads>>
    /\ UNCHANGED rvars

\* (the number of pairs handled so far, in place of len(pairs))
num_pairs_SoFar(prs, done) == done + 1

\* line 197: num_pairs = len(pairs)
num_pairs(prs, done) == Len(prs)

\* lines 198-199: total_returns[period] += difference[period] / num_pairs
Accumulate(totals, difference, n) ==
    [p \in Periods |-> VAdd(totals[p], VDiv(difference[p], Num(n, 1)))]

\* lines 186-194: the row of one pair.
PairRow(long_ticker, short_ticker, difference, pair_volatility) ==
    [long |-> long_ticker, short |-> short_ticker,
     diff |-> [p \in Periods |-> Format2(difference[p])],
     vol |-> Format2(pair_volatility)]

\* lines 212-220: the 'Total Portfolio' row.
TotalRow(totals, volatility) ==
    [long |-> "Total Portfolio", short |-> "",
     diff |-> [p \in Periods |-> Format2(totals[p])],
     vol |-> Format2(volatility)]

CallError(c) ==
    [type |-> c.exc, where |-> "get_stock_changes", ticker |-> c.ticker, names |-> c.names]

CallReads(c) == IF c.rows = 0 \/ c.start_resolved = NoDate THEN {}
                ELSE {<<"get_stock_changes", c.ticker, c.column>>}

\* lines 178-199: one iteration of the loop over the pairs, to its end.
PairCompletes ==
    /\ pc = "pairs"
    /\ LET i  == Len(results) + 1
           lt == pairs[i][1]
           st == pairs[i][2]
       IN  \E lr \in get_stock_changes(market, lt, adjusted_start_date, Today),
              sr \in get_stock_changes(market, st, adjusted_start_date, Today),
              pv \in {calculate_pair_volatility(market, lt, st, adjusted_start_date, Today)} :
             LET difference == [p \in Periods |-> VSub(lr.metrics[p], sr.metrics[p])]
             IN  /\ lr.exc = ""
                 /\ sr.exc = ""
                 /\ pv.exc = ""
                 /\ calls' = calls \o <<lr, sr>>
                 /\ reads' = reads \cup CallReads(lr) \cup CallReads(sr)
                        \cup {<<"calculate_pair_volatility", lt, pv.column>>,
                              <<"calculate_pair_volatility", st, pv.column>>}
                 /\ differences' = Append(differences, difference)
                 /\ results' = Append(results, PairRow(lt, st, difference, pv.value))
                 /\ total_returns' = Accumulate(total_returns, difference,
                                                num_pairs(pairs, Len(results)))
                 /\ pc' = IF i = Len(pairs) THEN "portfolio" ELSE "pairs"
    /\ UNCHANGED <<market, pairs, adjusted_start_date, total_volatility,
                   results_df, file, screen, error>>
    /\ UNCHANGED rvars

\* lines 179-181 when one of the three calls raises: the exception leaves
\* main() and ends the submission.
PairRaises ==
    /\ pc = "pairs"
    /\ LET i  == Len(results) + 1
           lt == pairs[i][1]
           st == pairs[i][2]
       IN  \E lr \in get_stock_changes(market, lt, adjusted_start_date, Today) :
             \/ /\ lr.exc # ""
                /\ calls' = Append(calls, lr)
                /\ reads' = reads \cup CallReads(lr)
                /\ error' = CallError(lr)
             \/ /\ lr.exc = ""
                /\ \E sr \in get_stock_changes(market, st, adjusted_start_date, Today),
                      pv \in {calculate_pair_volatility(market, lt, st,
                                                        adjusted_start_date, Today)} :
                         /\ sr.exc # "" \/ pv.exc # ""
                         /\ calls' = calls \o <<lr, sr>>
                         /\ reads' = reads \cup CallReads(lr) \cup CallReads(sr)
                                \cup (IF sr.exc = ""
                                      THEN {<<"calculate_pair_volatility", lt, pv.column>>}
                                      ELSE {})
                         /\ error' = IF sr.exc # "" THEN CallError(sr)
                                     ELSE [type |-> pv.exc,
                                           where |-> "calculate_pair_volatility",
                                           ticker |-> st, names |-> pv.names]
    /\ pc' = "error"
    /\ UNCHANGED <<market, pairs, adjusted_start_date, results, total_returns,
                   total_volatility, results_df, file, screen, differences>>
    /\ UNCHANGED rvars

\* line 202
PortfolioVolatility ==
    /\ pc = "portfolio"
    /\ \E r \in {calculate_portfolio_volatility(market, pairs, adjusted_start_date, Today)} :
           /\ reads' = reads \cup {<<"calculate_portfolio_volatility", x[1], x[2]>> : x \in r.reads}
           /\ IF r.exc # ""
              THEN /\ pc' = "error"
                   /\ error' = [type |-> r.exc, where |-> "calculate_portfolio_volatility",
                                ticker |-> r.ticker, names |-> r.names]
                   /\ UNCHANGED total_volatility
              ELSE /\ pc' = "table"
                   /\ total_volatility' = r.value
                   /\ UNCHANGED error
    /\ UNCHANGED <<market, pairs, adjusted_start_date, results, total_returns,
                   results_df, file, screen, differences, calls>>
    /\ UNCHANGED rvars

\* lines 205-223: the table, with the 'Total Portfolio' row appended.
BuildTable ==
    /\ pc = "table"
    /\ results_df' = Append(results, TotalRow(total_returns, total_volatility))
    /\ pc' = "save"
    /\ UNCHANGED <<market, pairs, adjusted_start_date, results, total_returns,
                   total_volatility, file, screen, error, differences, calls, reads>>
    /\ UNCHANGED rvars

\* lines 226-227: stock_returns.html is written.
SaveFile ==
    /\ pc = "save"
    /\ file' = results_df
    /\ pc' = "show"
    /\ UNCHANGED <<market, pairs, adjusted_start_date, results, total_returns,
                   total_volatility, results_df, screen, error, differences,
                   calls, reads>>
    /\ UNCHANGED rvars

\* lines 229-230: the table is shown.
Display ==
    /\ pc = "show"
    /\ screen' = results_df
    /\ pc' = "done"
    /\ UNCHANGED <<market, pairs, adjusted_start_date, results, total_returns,
                   total_volatility, results_df, file, error, differences,
                   calls, reads>>
    /\ UNCHANGED rvars

Next ==
    \/ Submit
    \/ SubmitHangs
    \/ PairCompletes
    \/ PairRaises
    \/ PortfolioVolatility
    \/ BuildTable
    \/ SaveFile
    \/ Display

Spec == Init /\ [][Next]_vars

(***************************************************************************)
(* SpecListed: the same submissions over the markets in which the provider *)
(* either holds a row on every RowDay for a ticker or holds none, with a   *)
(* 'Close' column only.  The family is small enough to be searched with    *)
(* more pairs and more prices than the whole of Spec allows.               *)
(***************************************************************************)
ListedTables == {t \in Tables : t.index \in {RowDays, {}} /\ ~t.adj}

ListedInit ==
    /\ Init
    /\ market \in [Tickers -> ListedTables]

SpecListed == ListedInit /\ [][Next]_vars

(***************************************************************************)
(* SpecResolver: one call of get_closest_date on any series of trading     *)
(* days and any target date, one statement per step.                       *)
(***************************************************************************)
TradingDays == {d \in 0..MaxDay : ~IsWeekend(d)}

ResolverInit ==
    /\ market = [t \in Tickers |-> [index |-> {}, close |-> <<>>, adj |-> FALSE]]
    /\ pc = "idle"
    /\ pairs = <<>>
    /\ adjusted_start_date = NoDate
    /\ results = <<>>
    /\ total_returns = [p \in Periods |-> Zero]
    /\ total_volatility = Zero
    /\ results_df = <<>>
    /\ file = <<>>
    /\ screen = <<>>
    /\ error = NoError
    /\ differences = <<>>
    /\ calls = <<>>
    /\ reads = {}
    /\ r_index \in SUBSET TradingDays
    /\ r_target \in 0..(MaxDay + 1)
    /\ r_date = r_target
    /\ r_pc = "entry"
    /\ r_result = Raised("")

\* line 31 on an empty series: data.index[-1] raises IndexError.
REmptyIndex ==
    /\ r_pc = "entry"
    /\ r_index = {}
    /\ r_pc' = "raised"
    /\ r_result' = Raised("IndexError")
    /\ UNCHANGED <<r_index, r_target, r_date>>
    /\ UNCHANGED mvars

\* lines 31-32: the target is later than the last date.
RClamp ==
    /\ r_pc = "entry"
    /\ r_index # {}
    /\ BeyondLast(r_index, r_date)
    /\ r_pc' = "returned"
    /\ r_result' = Returned(ClampedDate(r_index, r_date))
    /\ UNCHANGED <<r_index, r_target, r_date>>
    /\ UNCHANGED mvars

\* line 31 false: fall through to the loop.
REnterLoop ==
    /\ r_pc = "entry"
    /\ r_index # {}
    /\ ~BeyondLast(r_index, r_date)
    /\ r_pc' = "loop"
    /\ UNCHANGED <<r_index, r_target, r_date, r_result>>
    /\ UNCHANGED mvars

\* lines 33-34: one iteration.
RStep ==
    /\ r_pc = "loop"
    /\ LoopGuard(r_index, r_date)
    /\ ~StepOverflows(r_date)
    /\ r_date' = Stepped(r_date)
    /\ UNCHANGED <<r_index, r_target, r_pc, r_result>>
    /\ UNCHANGED mvars

\* line 34 at the lower end of the Timestamp range.
ROverflow ==
    /\ r_pc = "loop"
    /\ LoopGuard(r_index, r_date)
    /\ StepOverflows(r_date)
    /\ r_pc' = "raised"
    /\ r_result' = Raised("OverflowError")
    /\ UNCHANGED <<r_index, r_target, r_date>>
    /\ UNCHANGED mvars

\* lines 33, 35: the loop condition is false, return date.
RReturn ==
    /\ r_pc = "loop"
    /\ ~LoopGuard(r_index, r_date)
    /\ r_pc' = "returned"
    /\ r_result' = Returned(r_date)
    /\ UNCHANGED <<r_index, r_target, r_date>>
    /\ UNCHANGED mvars

ResolverNext ==
    \/ REmptyIndex
    \/ RClamp
    \/ REnterLoop
    \/ RStep
    \/ ROverflow
    \/ RReturn

SpecResolver == ResolverInit /\ [][ResolverNext]_vars

\* The step machine and the operator get_closest_date agree.
ResolverAgrees ==
    r_pc \in {"returned", "raised"} => r_result = get_closest_date(r_index, r_target)

(***************************************************************************)
(* Properties of get_closest_date (checked under SpecResolver).            *)
(***************************************************************************)
FirstDate(index) == SetMin(index)

\* The earliest date of the series on or after the target.
NextPresent(index, date) == SetMin({d \in index : d >= date})

\* C1: whenever get_closest_date returns a date, the date is not later than
\* the last date of the series, and it is a date of the series or the last
\* date itself.
C1_ReturnedDateWithinSeries ==
    r_pc = "returned" =>
        /\ r_result.date <= LastDate(r_index)
        /\ r_result.date \in r_index \/ r_result.date = LastDate(r_index)

\* C1 happens: a target absent from the series was resolved by the loop.
C1_Witness ==
    /\ r_pc = "returned"
    /\ r_target \notin r_index
    /\ r_target < LastDate(r_index)
    /\ r_date # r_target

\* C2: for a target not later than the last date and absent from a non-empty
\* series, the resolver steps forward (its cursor never falls below the
\* target) and returns the earliest date of the series on or after the target.
C2_StepsForwardToNextPresent ==
    (/\ r_pc \in {"loop", "returned"}
     /\ r_index # {}
     /\ r_target <= LastDate(r_index)
     /\ r_target \notin r_index)
    => /\ r_date >= r_target
       /\ r_pc = "returned" => r_result.date = NextPresent(r_index, r_target)

HasNaNCell(table) ==
    \E i \in 1..Len(table) :
        \/ table[i].vol.k = "nan"
        \/ \E p \in Periods : table[i].diff[p].k = "nan"

\* C3: the report (the file and the table on screen) exists only once every
\* pair's metrics and the portfolio volatility are computed; a submission
\* that failed has written no file and shown no table; and no report holds
\* a NaN cell.
C3_ReportCompleteOrAbsent ==
    /\ (file # <<>> \/ screen # <<>>) =>
          /\ pc \in {"show", "done"}
          /\ Len(results) = Len(pairs)
          /\ file = Append(results, TotalRow(total_returns, total_volatility))
    /\ pc = "error" => file = <<>> /\ screen = <<>>
    /\ ~HasNaNCell(file)
    /\ ~HasNaNCell(screen)

\* The arithmetic mean of the differences of all pairs for one horizon.
MeanDifference(p) ==
    VDiv(SeqSum([i \in 1..Len(differences) |-> differences[i][p]]),
         Num(Len(pairs), 1))

\* C4: once the loop over the pairs has finished, the total of each horizon
\* is the sum of the pairs' differences divided by the number of pairs, and
\* the 'Total Portfolio' row reports that mean (to two decimals).
C4_TotalIsMeanOfDifferences ==
    /\ pc \in {"portfolio", "table", "save", "show", "done"} =>
          \A p \in Periods : total_returns[p] = MeanDifference(p)
    /\ results_df # <<>> =>
          \A p \in Periods :
              results_df[Len(results_df)].diff[p] = Format2(MeanDifference(p))

\* C4 happens: a report of two pairs with different finite differences, the
\* first not zero, so that the mean is the value of neither.
C4_Witness ==
    /\ pc = "done"
    /\ Len(pairs) = 2
    /\ \E p \in Periods :
          /\ differences[1][p].k = "num"
          /\ differences[2][p].k = "num"
          /\ differences[1][p].n # 0
          /\ differences[1][p] # differences[2][p]
          /\ file[3].diff[p] = Format2(MeanDifference(p))

\* C5: a get_stock_changes call whose fetched series is empty fails with
\* NoDataAvailable naming the ticker and the requested range, and returns
\* no metrics.
C5_EmptySeriesRaisesNoDataAvailable ==
    \A i \in 1..Len(calls) :
        calls[i].rows = 0 =>
            /\ ~calls[i].returned
            /\ calls[i].exc = "NoDataAvailable"
            /\ {"ticker", "start_date", "end_date"} \subseteq calls[i].names

\* The dates common to the spread series of all the pairs of the submission.
CommonSpreadDates ==
    {d \in RowDays :
        \A i \in 1..Len(pairs) :
            d \in PairReturns(market, pairs[i][1], pairs[i][2],
                              adjusted_start_date, Today).index}

\* C6: with two or more pairs whose spread series share no date,
\* calculate_portfolio_volatility returns no value: the submission ends in
\* InsufficientOverlap.
C6_NoOverlapRaisesInsufficientOverlap ==
    (/\ Len(pairs) >= 2
     /\ pc \in {"table", "save", "show", "done"})
    => CommonSpreadDates # {}

\* C7: a call that read a price of zero at the resolved start date fails
\* with a division-by-zero error and returns no value.
C7_ZeroStartPriceRaises ==
    \A i \in 1..Len(calls) :
        (calls[i].start_resolved # NoDate /\ calls[i].start_price = 0) =>
            /\ ~calls[i].returned
            /\ calls[i].exc \in {"DivisionByZero", "ZeroDivisionError"}

\* C8: all the price reads of one submission use one and the same price
\* field, whatever the columns of the tickers' series.
C8_OnePriceFieldPerSubmission ==
    \A x, y \in reads : x[3] = y[3]

\* C9: the span of days CAGR annualises over is the span between the
\* resolved start date and the resolved end date, the two days whose prices
\* are read.
C9_CagrSpanIsResolvedSpan ==
    \A i \in 1..Len(calls) :
        calls[i].returned =>
            calls[i].span_days = calls[i].end_resolved - calls[i].start_resolved

====
